---- MODULE Spec2Model ----
(***************************************************************************)
(* Tile slope and height queries of src/tile_map.cpp.                      *)
(*                                                                         *)
(* The state is the stored height-map, the outside-map height function and *)
(* the record of the last query (its arguments, its return value, the      *)
(* value written through the optional height pointer, whether an assertion *)
(* failed and which heights were read, in order).                          *)
(* Assertions are modelled as compiled in (a build without NDEBUG).        *)
(***************************************************************************)
EXTENDS Integers, Sequences, FiniteSets, TLC

VARIABLES tileHeight, outsideHeight, result

vars == <<tileHeight, outsideHeight, result>>

(* ---------------- bounds ---------------- *)

\* Number of tiles along the X axis of the map.
MapSizeX == 2
\* Number of tiles along the Y axis of the map.
MapSizeY == 2
\* Largest height stored in the height-map or returned by the outside-map function.
MaxHeight == 2
\* Largest corner height handed directly to the classifier.
MaxCornerHeight == 3
\* Number of Y positions at which the outside-map queries are made.
OutSpan == 1

(* ---------------- constants of the program ---------------- *)

SLOPE_FLAT == 0
SLOPE_W == 1
SLOPE_S == 2
SLOPE_E == 4
SLOPE_N == 8
SLOPE_STEEP == 16
TILE_HEIGHT == 8

(* ---------------- map geometry ---------------- *)

MapMaxX == MapSizeX - 1
MapMaxY == MapSizeY - 1
MapSize == MapSizeX * MapSizeY

TileX(tile) == tile % MapSizeX
TileY(tile) == tile \div MapSizeX
TileDiffXY(dx, dy) == dy * MapSizeX + dx
IsInnerTile(tile) == TileX(tile) < MapMaxX /\ TileY(tile) < MapMaxY

\* Tiles of the map, and the tiles a caller may pass (one row beyond the map too).
Tiles == 0 .. (MapSize - 1)
QueryTiles == 0 .. (MapSize + MapSizeX - 1)
Heights == 0 .. MaxHeight
CornerHeights == 0 .. MaxCornerHeight

\* Coordinates at which the outside-map height function is evaluated.
OutsideXs == -1 .. MapSizeX
OutsideYs == -1 .. (MapSizeY + 1)
OutsideCoords == OutsideXs \X OutsideYs
\* Block of coordinates beyond the north-western map border on which the
\* outside-map queries are made.
WindowXs == {-1, 0}
WindowYs == -1 .. (OutSpan - 1)
WindowQueryX == -1
WindowQueryYs == -1 .. (OutSpan - 2)

\* A read of storage past the end of the map yields whatever lies there: the
\* value is arbitrary (g[i] for the read of corner i).  Only a call whose
\* corners do not all lie in the map can see it.
CornerIdx == 1 .. 4
Garbage == {[i \in CornerIdx |-> v] : v \in Heights}
ZeroGarbage == [i \in CornerIdx |-> 0]
GarbageFor(tile) == IF tile + TileDiffXY(1, 1) < MapSize THEN {ZeroGarbage} ELSE Garbage

(* ---------------- helpers of macros.h ---------------- *)

\* template max: a >= b ? a : b
max(a, b) == IF a >= b THEN a ELSE b
\* template min: a < b ? a : b
tmin(a, b) == IF a < b THEN a ELSE b
\* min(int, int): a <= b ? a : b
min(a, b) == IF a <= b THEN a ELSE b

(* ---------------- collaborators ---------------- *)

\* Stored height of a tile; i is the corner being read (for reads past the map).
TileHeight(tile, g, i) == IF tile \in Tiles THEN tileHeight[tile] ELSE g[i]
TileHeightOutsideMap(x, y) == outsideHeight[<<x, y>>]

(* ---------------- query records ---------------- *)

NoResult ==
  [op |-> "none", tile |-> 0, x |-> 0, y |-> 0, corners |-> <<0, 0, 0, 0>>,
   wantH |-> FALSE, ret |-> 0, hset |-> FALSE, h |-> 0, asserted |-> FALSE,
   reads |-> <<>>, oreads |-> <<>>]

\* Outcome of one call: return value, value written to *h (if any), reads.
Outcome(ret, hset, h, reads, oreads) ==
  [ret |-> ret, hset |-> hset, h |-> h, asserted |-> FALSE,
   reads |-> reads, oreads |-> oreads]

\* assert(tile < MapSize()) failed: the call ends before anything else happens.
AssertFailed ==
  [ret |-> 0, hset |-> FALSE, h |-> 0, asserted |-> TRUE,
   reads |-> <<>>, oreads |-> <<>>]

HasBit(r, bit) == (r \div bit) % 2 = 1

(* ---------------- GetTileSlopeGivenHeight ---------------- *)

\* Variant: the steep test is "at least 2" instead of "exactly 2".
GetTileSlopeGivenHeight_SteepAtLeast2(hnorth, hwest, heast, hsouth, wantH) ==
  LET hmin == min(min(hnorth, hwest), min(heast, hsouth))
      hmax == max(max(hnorth, hwest), max(heast, hsouth))
      r == SLOPE_FLAT
           + (IF hnorth # hmin THEN SLOPE_N ELSE 0)
           + (IF hwest # hmin THEN SLOPE_W ELSE 0)
           + (IF heast # hmin THEN SLOPE_E ELSE 0)
           + (IF hsouth # hmin THEN SLOPE_S ELSE 0)
           + (IF hmax - hmin >= 2 THEN SLOPE_STEEP ELSE 0)
  IN  Outcome(r, wantH, IF wantH THEN hmin ELSE 0, <<>>, <<>>)

\* Variant: the steep test is "at least 1".
GetTileSlopeGivenHeight_SteepAtLeast1(hnorth, hwest, heast, hsouth, wantH) ==
  LET hmin == min(min(hnorth, hwest), min(heast, hsouth))
      hmax == max(max(hnorth, hwest), max(heast, hsouth))
      r == SLOPE_FLAT
           + (IF hnorth # hmin THEN SLOPE_N ELSE 0)
           + (IF hwest # hmin THEN SLOPE_W ELSE 0)
           + (IF heast # hmin THEN SLOPE_E ELSE 0)
           + (IF hsouth # hmin THEN SLOPE_S ELSE 0)
           + (IF hmax - hmin >= 1 /\ hmax - hmin <= 2 THEN SLOPE_STEEP ELSE 0)
  IN  Outcome(r, wantH, IF wantH THEN hmin ELSE 0, <<>>, <<>>)

\* Variant: the south corner is compared with the maximum instead of the minimum.
GetTileSlopeGivenHeight_SouthVsMax(hnorth, hwest, heast, hsouth, wantH) ==
  LET hmin == min(min(hnorth, hwest), min(heast, hsouth))
      hmax == max(max(hnorth, hwest), max(heast, hsouth))
      r == SLOPE_FLAT
           + (IF hnorth # hmin THEN SLOPE_N ELSE 0)
           + (IF hwest # hmin THEN SLOPE_W ELSE 0)
           + (IF heast # hmin THEN SLOPE_E ELSE 0)
           + (IF hsouth # hmax THEN SLOPE_S ELSE 0)
           + (IF hmax - hmin = 2 THEN SLOPE_STEEP ELSE 0)
  IN  Outcome(r, wantH, IF wantH THEN hmin ELSE 0, <<>>, <<>>)

GetTileSlopeGivenHeight(hnorth, hwest, heast, hsouth, wantH) ==
  LET hminnw == min(hnorth, hwest)
      hmines == min(heast, hsouth)
      hmin == min(hminnw, hmines)
      hmaxnw == max(hnorth, hwest)
      hmaxes == max(heast, hsouth)
      hmax == max(hmaxnw, hmaxes)
      r == SLOPE_FLAT
           + (IF hnorth # hmin THEN SLOPE_N ELSE 0)
           + (IF hwest # hmin THEN SLOPE_W ELSE 0)
           + (IF heast # hmin THEN SLOPE_E ELSE 0)
           + (IF hsouth # hmin THEN SLOPE_S ELSE 0)
           + (IF hmax - hmin = 2 THEN SLOPE_STEEP ELSE 0)
  IN  Outcome(r, wantH, IF wantH THEN hmin ELSE 0, <<>>, <<>>)

(* ---------------- GetTileSlope ---------------- *)

\* Variant: no special case for the tiles of the last row and column.
GetTileSlope_NoEdgeCase(tile, wantH, g) ==
  IF ~(tile < MapSize) THEN AssertFailed
  ELSE
    LET hnorth == TileHeight(tile, g, 1)
        hwest == TileHeight(tile + TileDiffXY(1, 0), g, 2)
        heast == TileHeight(tile + TileDiffXY(0, 1), g, 3)
        hsouth == TileHeight(tile + TileDiffXY(1, 1), g, 4)
        c == GetTileSlopeGivenHeight(hnorth, hwest, heast, hsouth, wantH)
    IN  Outcome(c.ret, c.hset, c.h,
                <<tile, tile + TileDiffXY(1, 0), tile + TileDiffXY(0, 1),
                  tile + TileDiffXY(1, 1)>>, <<>>)

\* Variant: the height of an edge tile is read even when no output is requested.
GetTileSlope_AlwaysReadsEdge(tile, wantH, g) ==
  IF ~(tile < MapSize) THEN AssertFailed
  ELSE IF ~IsInnerTile(tile) THEN
    Outcome(SLOPE_FLAT, wantH, IF wantH THEN TileHeight(tile, g, 1) ELSE 0,
            <<tile>>, <<>>)
  ELSE
    LET hnorth == TileHeight(tile, g, 1)
        hwest == TileHeight(tile + TileDiffXY(1, 0), g, 2)
        heast == TileHeight(tile + TileDiffXY(0, 1), g, 3)
        hsouth == TileHeight(tile + TileDiffXY(1, 1), g, 4)
        c == GetTileSlopeGivenHeight(hnorth, hwest, heast, hsouth, wantH)
    IN  Outcome(c.ret, c.hset, c.h,
                <<tile, tile + TileDiffXY(1, 0), tile + TileDiffXY(0, 1),
                  tile + TileDiffXY(1, 1)>>, <<>>)

GetTileSlope(tile, wantH, g) ==
  IF ~(tile < MapSize) THEN AssertFailed
  ELSE IF ~IsInnerTile(tile) THEN
    IF wantH THEN Outcome(SLOPE_FLAT, TRUE, TileHeight(tile, g, 1), <<tile>>, <<>>)
    ELSE Outcome(SLOPE_FLAT, FALSE, 0, <<>>, <<>>)
  ELSE
    LET hnorth == TileHeight(tile, g, 1)
        hwest == TileHeight(tile + TileDiffXY(1, 0), g, 2)
        heast == TileHeight(tile + TileDiffXY(0, 1), g, 3)
        hsouth == TileHeight(tile + TileDiffXY(1, 1), g, 4)
        c == GetTileSlopeGivenHeight(hnorth, hwest, heast, hsouth, wantH)
    IN  Outcome(c.ret, c.hset, c.h,
                <<tile, tile + TileDiffXY(1, 0), tile + TileDiffXY(0, 1),
                  tile + TileDiffXY(1, 1)>>, <<>>)

(* ---------------- IsTileFlat ---------------- *)

\* Variant: the south corner is not compared.
IsTileFlat_NoSouth(tile, wantH, g) ==
  IF ~(tile < MapSize) THEN AssertFailed
  ELSE IF ~IsInnerTile(tile) THEN
    IF wantH THEN Outcome(TRUE, TRUE, TileHeight(tile, g, 1), <<tile>>, <<>>)
    ELSE Outcome(TRUE, FALSE, 0, <<>>, <<>>)
  ELSE
    LET tw == tile + TileDiffXY(1, 0)
        te == tile + TileDiffXY(0, 1)
        z == TileHeight(tile, g, 1)
    IN  IF TileHeight(tw, g, 2) # z THEN Outcome(FALSE, FALSE, 0, <<tile, tw>>, <<>>)
        ELSE IF TileHeight(te, g, 3) # z
          THEN Outcome(FALSE, FALSE, 0, <<tile, tw, te>>, <<>>)
        ELSE Outcome(TRUE, wantH, IF wantH THEN z ELSE 0, <<tile, tw, te>>, <<>>)

IsTileFlat(tile, wantH, g) ==
  IF ~(tile < MapSize) THEN AssertFailed
  ELSE IF ~IsInnerTile(tile) THEN
    IF wantH THEN Outcome(TRUE, TRUE, TileHeight(tile, g, 1), <<tile>>, <<>>)
    ELSE Outcome(TRUE, FALSE, 0, <<>>, <<>>)
  ELSE
    LET tw == tile + TileDiffXY(1, 0)
        te == tile + TileDiffXY(0, 1)
        ts == tile + TileDiffXY(1, 1)
        z == TileHeight(tile, g, 1)
    IN  IF TileHeight(tw, g, 2) # z THEN Outcome(FALSE, FALSE, 0, <<tile, tw>>, <<>>)
        ELSE IF TileHeight(te, g, 3) # z
          THEN Outcome(FALSE, FALSE, 0, <<tile, tw, te>>, <<>>)
        ELSE IF TileHeight(ts, g, 4) # z
          THEN Outcome(FALSE, FALSE, 0, <<tile, tw, te, ts>>, <<>>)
        ELSE Outcome(TRUE, wantH, IF wantH THEN z ELSE 0, <<tile, tw, te, ts>>, <<>>)

(* ---------------- GetTilePixelSlopeOutsideMap ---------------- *)

\* Variant: the height is left in height units.
GetTilePixelSlopeOutsideMap_Unscaled(x, y, wantH) ==
  LET hnorth == TileHeightOutsideMap(x, y)
      hwest == TileHeightOutsideMap(x + 1, y)
      heast == TileHeightOutsideMap(x, y + 1)
      hsouth == TileHeightOutsideMap(x + 1, y + 1)
      s == GetTileSlopeGivenHeight(hnorth, hwest, heast, hsouth, wantH)
  IN  Outcome(s.ret, s.hset, s.h, <<>>,
              << <<x, y>>, <<x + 1, y>>, <<x, y + 1>>, <<x + 1, y + 1>> >>)

GetTilePixelSlopeOutsideMap(x, y, wantH) ==
  LET hnorth == TileHeightOutsideMap(x, y)
      hwest == TileHeightOutsideMap(x + 1, y)
      heast == TileHeightOutsideMap(x, y + 1)
      hsouth == TileHeightOutsideMap(x + 1, y + 1)
      s == GetTileSlopeGivenHeight(hnorth, hwest, heast, hsouth, wantH)
  IN  Outcome(s.ret, s.hset, IF wantH THEN s.h * TILE_HEIGHT ELSE 0, <<>>,
              << <<x, y>>, <<x + 1, y>>, <<x, y + 1>>, <<x + 1, y + 1>> >>)

(* ---------------- GetTileZ ---------------- *)

\* Variant: only the last column is treated as an edge, not the last row.
GetTileZ_NoYEdge(tile, g) ==
  IF TileX(tile) = MapMaxX
  THEN Outcome(0, FALSE, 0, <<>>, <<>>)
  ELSE
    LET tw == tile + TileDiffXY(1, 0)
        te == tile + TileDiffXY(0, 1)
        ts == tile + TileDiffXY(1, 1)
        h0 == TileHeight(tile, g, 1)
        h1 == min(h0, TileHeight(tw, g, 2))
        h2 == min(h1, TileHeight(te, g, 3))
        h3 == min(h2, TileHeight(ts, g, 4))
    IN  Outcome(h3, FALSE, 0, <<tile, tw, te, ts>>, <<>>)

GetTileZ(tile, g) ==
  IF TileX(tile) = MapMaxX \/ TileY(tile) = MapMaxY
  THEN Outcome(0, FALSE, 0, <<>>, <<>>)
  ELSE
    LET tw == tile + TileDiffXY(1, 0)
        te == tile + TileDiffXY(0, 1)
        ts == tile + TileDiffXY(1, 1)
        h0 == TileHeight(tile, g, 1)
        h1 == min(h0, TileHeight(tw, g, 2))
        h2 == min(h1, TileHeight(te, g, 3))
        h3 == min(h2, TileHeight(ts, g, 4))
    IN  Outcome(h3, FALSE, 0, <<tile, tw, te, ts>>, <<>>)

(* ---------------- GetTilePixelZOutsideMap ---------------- *)

GetTilePixelZOutsideMap(x, y) ==
  LET h0 == TileHeightOutsideMap(x, y)
      h1 == tmin(h0, TileHeightOutsideMap(x + 1, y))
      h2 == tmin(h1, TileHeightOutsideMap(x, y + 1))
      h3 == tmin(h2, TileHeightOutsideMap(x + 1, y + 1))
  IN  Outcome(h3 * TILE_HEIGHT, FALSE, 0, <<>>,
              << <<x, y>>, <<x + 1, y>>, <<x, y + 1>>, <<x + 1, y + 1>> >>)

(* ---------------- GetTileMaxZ ---------------- *)

\* Variant: the edge test is dropped and every tile takes the outside-map height.
GetTileMaxZ_OutsideEverywhere(t, g) ==
  Outcome(TileHeightOutsideMap(TileX(t), TileY(t)), FALSE, 0, <<>>,
          << <<TileX(t), TileY(t)>> >>)

\* Variant: an edge tile returns its own stored height.
GetTileMaxZ_StoredOnEdge(t, g) ==
  IF TileX(t) = MapMaxX \/ TileY(t) = MapMaxY
  THEN Outcome(TileHeight(t, g, 1), FALSE, 0, <<t>>, <<>>)
  ELSE
    LET tw == t + TileDiffXY(1, 0)
        te == t + TileDiffXY(0, 1)
        ts == t + TileDiffXY(1, 1)
        h0 == TileHeight(t, g, 1)
        h1 == max(h0, TileHeight(tw, g, 2))
        h2 == max(h1, TileHeight(te, g, 3))
        h3 == max(h2, TileHeight(ts, g, 4))
    IN  Outcome(h3, FALSE, 0, <<t, tw, te, ts>>, <<>>)

GetTileMaxZ(t, g) ==
  IF TileX(t) = MapMaxX \/ TileY(t) = MapMaxY
  THEN Outcome(TileHeightOutsideMap(TileX(t), TileY(t)), FALSE, 0, <<>>,
               << <<TileX(t), TileY(t)>> >>)
  ELSE
    LET tw == t + TileDiffXY(1, 0)
        te == t + TileDiffXY(0, 1)
        ts == t + TileDiffXY(1, 1)
        h0 == TileHeight(t, g, 1)
        h1 == max(h0, TileHeight(tw, g, 2))
        h2 == max(h1, TileHeight(te, g, 3))
        h3 == max(h2, TileHeight(ts, g, 4))
    IN  Outcome(h3, FALSE, 0, <<t, tw, te, ts>>, <<>>)

(* ---------------- GetTileMaxPixelZOutsideMap ---------------- *)

GetTileMaxPixelZOutsideMap(x, y) ==
  LET h0 == TileHeightOutsideMap(x, y)
      h1 == max(h0, TileHeightOutsideMap(x + 1, y))
      h2 == max(h1, TileHeightOutsideMap(x, y + 1))
      h3 == max(h2, TileHeightOutsideMap(x + 1, y + 1))
  IN  Outcome(h3 * TILE_HEIGHT, FALSE, 0, <<>>,
              << <<x, y>>, <<x + 1, y>>, <<x, y + 1>>, <<x + 1, y + 1>> >>)

(* ---------------- the calls ---------------- *)

\* The record of a call: who was called with what, and its outcome.
Call(op, tile, x, y, corners, wantH, o) ==
  [op |-> op, tile |-> tile, x |-> x, y |-> y, corners |-> corners,
   wantH |-> wantH, ret |-> o.ret, hset |-> o.hset, h |-> o.h,
   asserted |-> o.asserted, reads |-> o.reads, oreads |-> o.oreads]

NoCorners == <<0, 0, 0, 0>>

CallGetTileSlopeGivenHeight(hn, hw, he, hs, wantH) ==
  /\ result' = Call("GetTileSlopeGivenHeight", 0, 0, 0, <<hn, hw, he, hs>>, wantH,
                    GetTileSlopeGivenHeight(hn, hw, he, hs, wantH))
  /\ UNCHANGED <<tileHeight, outsideHeight>>

CallGetTileSlope(tile, wantH, g) ==
  /\ result' = Call("GetTileSlope", tile, 0, 0, NoCorners, wantH,
                    GetTileSlope(tile, wantH, g))
  /\ UNCHANGED <<tileHeight, outsideHeight>>

CallIsTileFlat(tile, wantH, g) ==
  /\ result' = Call("IsTileFlat", tile, 0, 0, NoCorners, wantH,
                    IsTileFlat(tile, wantH, g))
  /\ UNCHANGED <<tileHeight, outsideHeight>>

CallGetTilePixelSlopeOutsideMap(x, y, wantH) ==
  /\ result' = Call("GetTilePixelSlopeOutsideMap", 0, x, y, NoCorners, wantH,
                    GetTilePixelSlopeOutsideMap(x, y, wantH))
  /\ UNCHANGED <<tileHeight, outsideHeight>>

CallGetTileZ(tile, g) ==
  /\ result' = Call("GetTileZ", tile, 0, 0, NoCorners, FALSE, GetTileZ(tile, g))
  /\ UNCHANGED <<tileHeight, outsideHeight>>

CallGetTilePixelZOutsideMap(x, y) ==
  /\ result' = Call("GetTilePixelZOutsideMap", 0, x, y, NoCorners, FALSE,
                    GetTilePixelZOutsideMap(x, y))
  /\ UNCHANGED <<tileHeight, outsideHeight>>

CallGetTileMaxZ(t, g) ==
  /\ result' = Call("GetTileMaxZ", t, 0, 0, NoCorners, FALSE, GetTileMaxZ(t, g))
  /\ UNCHANGED <<tileHeight, outsideHeight>>

CallGetTileMaxPixelZOutsideMap(x, y) ==
  /\ result' = Call("GetTileMaxPixelZOutsideMap", 0, x, y, NoCorners, FALSE,
                    GetTileMaxPixelZOutsideMap(x, y))
  /\ UNCHANGED <<tileHeight, outsideHeight>>

(* ---------------- specifications ---------------- *)

\* A map of flat land at one level, and an outside-map function of one level.
FlatMaps == {[t \in Tiles |-> c] : c \in Heights}
FlatOutside == {[p \in OutsideCoords |-> c] : c \in Heights}
\* Outside-map functions that are arbitrary on the window and 0 elsewhere.
WindowOutside ==
  {[p \in OutsideCoords |-> IF p \in DOMAIN w THEN w[p] ELSE 0] :
     w \in [WindowXs \X WindowYs -> Heights]}

\* Either any stored height-map under a level outside-map function, or flat
\* land under any outside-map function on the window.
Init ==
  /\ \/ /\ tileHeight \in [Tiles -> Heights]
        /\ outsideHeight \in FlatOutside
     \/ /\ tileHeight \in FlatMaps
        /\ outsideHeight \in WindowOutside
  /\ result = NoResult

Next ==
  \/ \E tile \in QueryTiles, wantH \in BOOLEAN :
       \E g \in GarbageFor(tile) : CallGetTileSlope(tile, wantH, g)
  \/ \E tile \in QueryTiles, wantH \in BOOLEAN :
       \E g \in GarbageFor(tile) : CallIsTileFlat(tile, wantH, g)
  \/ \E y \in WindowQueryYs, wantH \in BOOLEAN :
       CallGetTilePixelSlopeOutsideMap(WindowQueryX, y, wantH)
  \/ \E tile \in QueryTiles : \E g \in GarbageFor(tile) : CallGetTileZ(tile, g)
  \/ \E y \in WindowQueryYs : CallGetTilePixelZOutsideMap(WindowQueryX, y)
  \/ \E t \in QueryTiles : \E g \in GarbageFor(t) : CallGetTileMaxZ(t, g)
  \/ \E y \in WindowQueryYs : CallGetTileMaxPixelZOutsideMap(WindowQueryX, y)

Spec == Init /\ [][Next]_vars

\* The classifier alone, on every four corner heights.
InitClassify ==
  /\ tileHeight = [t \in Tiles |-> 0]
  /\ outsideHeight = [p \in OutsideCoords |-> 0]
  /\ result = NoResult

NextClassify ==
  \E hn \in CornerHeights, hw \in CornerHeights, he \in CornerHeights,
     hs \in CornerHeights, wantH \in BOOLEAN :
       CallGetTileSlopeGivenHeight(hn, hw, he, hs, wantH)

SpecClassify == InitClassify /\ [][NextClassify]_vars

(* ---------------- properties ---------------- *)

\* Least and greatest of a tuple of heights, stated without the program's helpers.
Least(c) == CHOOSE m \in {c[i] : i \in DOMAIN c} : \A i \in DOMAIN c : m <= c[i]
Greatest(c) == CHOOSE m \in {c[i] : i \in DOMAIN c} : \A i \in DOMAIN c : m >= c[i]

\* The four stored corner heights of a tile, as N, W, E, S.
StoredCorners(tile) ==
  <<tileHeight[tile], tileHeight[tile + TileDiffXY(1, 0)],
    tileHeight[tile + TileDiffXY(0, 1)], tileHeight[tile + TileDiffXY(1, 1)]>>
\* The four outside-map heights at (x, y), as N, W, E, S.
OutsideCorners(x, y) ==
  <<outsideHeight[<<x, y>>], outsideHeight[<<x + 1, y>>],
    outsideHeight[<<x, y + 1>>], outsideHeight[<<x + 1, y + 1>>]>>

IsEdgeTile(tile) == TileX(tile) = MapMaxX \/ TileY(tile) = MapMaxY
InMapOps == {"GetTileSlope", "IsTileFlat", "GetTileZ", "GetTileMaxZ"}

\* C1: for every four corner heights the classifier sets each corner bit
\* (N, W, E, S) exactly when that corner differs from the least of the four,
\* writes that least height when a height output is requested (and nothing
\* otherwise), and returns SLOPE_FLAT for four equal heights.
C1_CornerBitsAndMinimum ==
  result.op = "GetTileSlopeGivenHeight" =>
    LET c == result.corners
        m == Least(c)
    IN  /\ HasBit(result.ret, SLOPE_N) <=> c[1] # m
        /\ HasBit(result.ret, SLOPE_W) <=> c[2] # m
        /\ HasBit(result.ret, SLOPE_E) <=> c[3] # m
        /\ HasBit(result.ret, SLOPE_S) <=> c[4] # m
        /\ result.hset <=> result.wantH
        /\ result.wantH => result.h = m
        /\ (c[1] = c[2] /\ c[2] = c[3] /\ c[3] = c[4]) => result.ret = SLOPE_FLAT

\* C1 witness: corners (2,3,2,2) give the mask {W} and the height 2.
C1_Witness ==
  /\ result.op = "GetTileSlopeGivenHeight"
  /\ result.corners = <<2, 3, 2, 2>>
  /\ result.wantH /\ result.hset /\ result.h = 2
  /\ result.ret = SLOPE_W

\* C2: when the greatest corner is 0 or 1 above the least the steep bit is
\* never set; when it is exactly 2 above, the steep bit is always set.
C2_SteepBit ==
  result.op = "GetTileSlopeGivenHeight" =>
    LET d == Greatest(result.corners) - Least(result.corners)
    IN  /\ d \in {0, 1} => ~HasBit(result.ret, SLOPE_STEEP)
        /\ d = 2 => HasBit(result.ret, SLOPE_STEEP)

\* C2 witness: corners (1,3,1,1) give the raised W corner plus the steep bit.
C2_Witness ==
  /\ result.op = "GetTileSlopeGivenHeight"
  /\ result.corners = <<1, 3, 1, 1>>
  /\ result.ret = SLOPE_W + SLOPE_STEEP

\* C3 as stated: when the greatest corner is 3 or more above the least, the
\* steep bit is still set.
C3_SteepBeyondTwo ==
  (result.op = "GetTileSlopeGivenHeight"
     /\ Greatest(result.corners) - Least(result.corners) >= 3)
    => HasBit(result.ret, SLOPE_STEEP)

\* C3 amended: when the greatest corner is 3 or more above the least, the
\* steep bit is not set; the corner bits still mark the corners that differ
\* from the least.
C3_NoSteepBeyondTwo ==
  (result.op = "GetTileSlopeGivenHeight"
     /\ Greatest(result.corners) - Least(result.corners) >= 3)
    => LET c == result.corners
           m == Least(c)
       IN  /\ ~HasBit(result.ret, SLOPE_STEEP)
           /\ HasBit(result.ret, SLOPE_N) <=> c[1] # m
           /\ HasBit(result.ret, SLOPE_W) <=> c[2] # m
           /\ HasBit(result.ret, SLOPE_E) <=> c[3] # m
           /\ HasBit(result.ret, SLOPE_S) <=> c[4] # m

\* C3 witness: corners (0,3,0,0) give the raised W corner without the steep bit.
C3_Witness ==
  /\ result.op = "GetTileSlopeGivenHeight"
  /\ result.corners = <<0, 3, 0, 0>>
  /\ result.ret = SLOPE_W

\* C4: for every tile of the map, IsTileFlat returns true exactly when
\* GetTileSlope returns SLOPE_FLAT, and when it returns true with a height
\* output requested both write the same height.
C4_FlatIffSlopeFlat ==
  \A tile \in Tiles, wantH \in BOOLEAN :
    LET f == IsTileFlat(tile, wantH, ZeroGarbage)
        s == GetTileSlope(tile, wantH, ZeroGarbage)
    IN  /\ ~f.asserted /\ ~s.asserted
        /\ (f.ret = TRUE) <=> (s.ret = SLOPE_FLAT)
        /\ (f.ret = TRUE /\ wantH) => (f.hset /\ s.hset /\ f.h = s.h)

\* C4 witness: IsTileFlat was called on an inner tile of raised flat land and
\* wrote the height GetTileSlope writes; elsewhere on an inner tile it is false.
C4_Witness ==
  /\ result.op = "IsTileFlat"
  /\ result.tile \in Tiles /\ IsInnerTile(result.tile)
  /\ result.ret = TRUE /\ result.wantH /\ result.hset /\ result.h > 0
  /\ GetTileSlope(result.tile, TRUE, ZeroGarbage).ret = SLOPE_FLAT
  /\ GetTileSlope(result.tile, TRUE, ZeroGarbage).h = result.h

\* C5 as stated: GetTileZ returns the stored height of an edge tile, and the
\* least of the four stored corner heights of an interior tile.
C5_GetTileZ ==
  (result.op = "GetTileZ" /\ result.tile \in Tiles) =>
    IF IsEdgeTile(result.tile)
    THEN result.ret = tileHeight[result.tile]
    ELSE result.ret = Least(StoredCorners(result.tile))

\* C6: for every interior tile, GetTileZ(tile) <= GetTileMaxZ(tile).
C6_MinBelowMax ==
  \A tile \in Tiles :
    (TileX(tile) < MapMaxX /\ TileY(tile) < MapMaxY) =>
      GetTileZ(tile, ZeroGarbage).ret <= GetTileMaxZ(tile, ZeroGarbage).ret

\* C6 witness: GetTileMaxZ was called on an interior tile whose bottom height
\* is strictly below the returned top height.
C6_Witness ==
  /\ result.op = "GetTileMaxZ"
  /\ result.tile \in Tiles
  /\ TileX(result.tile) < MapMaxX /\ TileY(result.tile) < MapMaxY
  /\ GetTileZ(result.tile, ZeroGarbage).ret < result.ret

\* C7: for every tile of the map's last column or last row GetTileSlope
\* returns SLOPE_FLAT whatever the neighbouring tiles store, and the height
\* it writes, when requested, is the stored height of that one tile.
C7_EdgeTileFlat ==
  (result.op = "GetTileSlope" /\ result.tile \in Tiles /\ IsEdgeTile(result.tile)) =>
    /\ ~result.asserted
    /\ result.ret = SLOPE_FLAT
    /\ result.hset <=> result.wantH
    /\ result.wantH => result.h = tileHeight[result.tile]

\* C7 witness: GetTileSlope on a tile of the last column whose eastern
\* neighbour stores another height.
C7_Witness ==
  /\ result.op = "GetTileSlope"
  /\ result.tile \in Tiles
  /\ TileX(result.tile) = MapMaxX /\ TileY(result.tile) < MapMaxY
  /\ tileHeight[result.tile + TileDiffXY(0, 1)] # tileHeight[result.tile]
  /\ result.wantH /\ result.hset /\ result.h = tileHeight[result.tile]
  /\ result.h > 0
  /\ result.ret = SLOPE_FLAT

\* C8: GetTilePixelSlopeOutsideMap returns the classifier's mask of the
\* outside-map heights at (x,y), (x+1,y), (x,y+1), (x+1,y+1) taken as N, W,
\* E, S and writes, when requested, their least height times TILE_HEIGHT;
\* GetTileSlope of an inner tile writes the least stored corner height as is.
C8_OutsideScaledInsideNot ==
  /\ result.op = "GetTilePixelSlopeOutsideMap" =>
       LET c == OutsideCorners(result.x, result.y)
       IN  /\ result.ret = GetTileSlopeGivenHeight(c[1], c[2], c[3], c[4], FALSE).ret
           /\ result.hset <=> result.wantH
           /\ result.wantH => result.h = Least(c) * TILE_HEIGHT
  /\ (result.op = "GetTileSlope" /\ result.tile \in Tiles /\ IsInnerTile(result.tile)) =>
       /\ result.hset <=> result.wantH
       /\ result.wantH => result.h = Least(StoredCorners(result.tile))

\* C8 witness: an outside-map call over raised, uneven ground wrote a pixel height.
C8_Witness ==
  /\ result.op = "GetTilePixelSlopeOutsideMap"
  /\ result.wantH /\ result.hset
  /\ Least(OutsideCorners(result.x, result.y)) > 0
  /\ result.h = Least(OutsideCorners(result.x, result.y)) * TILE_HEIGHT
  /\ result.ret # SLOPE_FLAT

\* C9: for every edge tile GetTileMaxZ returns the outside-map height at the
\* tile's coordinates, not the stored height; for every interior tile it
\* returns the greatest of the four stored corner heights.
C9_GetTileMaxZ ==
  (result.op = "GetTileMaxZ" /\ result.tile \in Tiles) =>
    IF IsEdgeTile(result.tile)
    THEN /\ result.ret = outsideHeight[<<TileX(result.tile), TileY(result.tile)>>]
         /\ result.reads = <<>>
    ELSE result.ret = Greatest(StoredCorners(result.tile))

\* C9 witness: GetTileMaxZ on an edge tile whose stored height differs from
\* the outside-map height returned.
C9_Witness ==
  /\ result.op = "GetTileMaxZ"
  /\ result.tile \in Tiles /\ IsEdgeTile(result.tile)
  /\ result.ret = outsideHeight[<<TileX(result.tile), TileY(result.tile)>>]
  /\ result.ret # tileHeight[result.tile]

\* C10 as stated: a tile >= MapSize passed to GetTileSlope, IsTileFlat,
\* GetTileZ or GetTileMaxZ fails an assertion before any height is read.
C10_OutOfBoundsAsserted ==
  (result.op \in InMapOps /\ result.tile >= MapSize) =>
    /\ result.asserted
    /\ result.reads = <<>>
    /\ result.oreads = <<>>

\* Number of height accesses of the recorded call, stored and outside-map.
Accesses == Len(result.reads) + Len(result.oreads)
OutsideOps ==
  {"GetTilePixelSlopeOutsideMap", "GetTilePixelZOutsideMap",
   "GetTileMaxPixelZOutsideMap"}
\* The recorded call is a query on a tile of the map or an outside-map query.
IsQueryCall ==
  \/ result.op \in InMapOps /\ result.tile \in Tiles
  \/ result.op \in OutsideOps

\* C11 as stated: every query makes exactly 1 or exactly 4 height accesses.
C11_OneOrFourAccesses ==
  IsQueryCall => Accesses \in {1, 4}

\* C11 amended: every query makes at most 4 height accesses, their number
\* depending on the tile, the heights and the height output: the outside-map
\* queries 4; GetTileMaxZ 1 on an edge tile and 4 inside; GetTileSlope and
\* IsTileFlat on a non-inner tile 1 if a height output is requested and 0 if
\* not; GetTileSlope on an inner tile 4; IsTileFlat on an inner tile 2, 3 or
\* 4, fewer than 4 only when it returns false; GetTileZ 0 on an edge tile and
\* 4 inside.
C11_AtMostFourAccesses ==
  IsQueryCall =>
    /\ Accesses <= 4
    /\ result.op \in OutsideOps => Accesses = 4
    /\ result.op = "GetTileMaxZ" =>
         Accesses = (IF IsEdgeTile(result.tile) THEN 1 ELSE 4)
    /\ result.op = "GetTileZ" =>
         Accesses = (IF IsEdgeTile(result.tile) THEN 0 ELSE 4)
    /\ (result.op \in {"GetTileSlope", "IsTileFlat"} /\ ~IsInnerTile(result.tile)) =>
         Accesses = (IF result.wantH THEN 1 ELSE 0)
    /\ (result.op = "GetTileSlope" /\ IsInnerTile(result.tile)) => Accesses = 4
    /\ (result.op = "IsTileFlat" /\ IsInnerTile(result.tile)) =>
         /\ Accesses \in {2, 3, 4}
         /\ Accesses < 4 => result.ret = FALSE

\* C11 witness: IsTileFlat on an inner tile stopped after two reads.
C11_Witness ==
  /\ result.op = "IsTileFlat"
  /\ result.tile \in Tiles /\ IsInnerTile(result.tile)
  /\ result.ret = FALSE
  /\ Accesses = 2

\* The stored-height reads of the recorded call, as a set of tile indices.
ReadTiles == {result.reads[i] : i \in DOMAIN result.reads}

\* C12: for every tile < MapSize, every stored-height read made by
\* GetTileSlope, IsTileFlat, GetTileZ and GetTileMaxZ addresses a tile inside
\* the map (index < MapSize, X <= MapMaxX, Y <= MapMaxY) that is one of
\* tile, tile+(1,0), tile+(0,1), tile+(1,1) without wrapping to another row:
\* its X is the tile's X or one more and its Y the tile's Y or one more.
C12_ReadsInsideMap ==
  (result.op \in InMapOps /\ result.tile < MapSize) =>
    \A r \in ReadTiles :
      /\ r >= 0 /\ r < MapSize
      /\ TileX(r) <= MapMaxX /\ TileY(r) <= MapMaxY
      /\ \E dx \in {0, 1}, dy \in {0, 1} :
           /\ r = result.tile + TileDiffXY(dx, dy)
           /\ TileX(r) = TileX(result.tile) + dx
           /\ TileY(r) = TileY(result.tile) + dy

\* C12 witness: GetTileZ on an interior tile read all four corners, the last
\* of them the tile at (+1,+1), inside the map.
C12_Witness ==
  /\ result.op = "GetTileZ"
  /\ result.tile \in Tiles /\ ~IsEdgeTile(result.tile)
  /\ Len(result.reads) = 4
  /\ result.reads[4] = result.tile + TileDiffXY(1, 1)
  /\ result.reads[4] < MapSize
  /\ TileX(result.reads[4]) = TileX(result.tile) + 1

====
